---- MODULE Spec2Model ----
(***************************************************************************)
(* FONarchive manager (src/fonarchive_manager.py): the font identification *)
(* and archival pipeline of main():                                        *)
(*   copy_and_unhide_all -> parse_fonts -> write_metadata_csv ->           *)
(*   rename_and_unhide_files -> organize_files.                            *)
(*                                                                         *)
(* Text is modelled character by character: a Python str or bytes value is *)
(* a sequence of one-character strings.  A character or byte that has no   *)
(* printable ASCII form is written as a named atom ("NUL", "SOH", "TAB",   *)
(* "US", "xC3", "xA9", "xFF", "U+").  Python's None is the value None.     *)
(***************************************************************************)
EXTENDS Integers, Sequences, FiniteSets, TLC

(***************************************************************************)
(* Bounds of the model.                                                    *)
(***************************************************************************)
\* number of files found under the livetype folder, entitlements.xml not counted
MaxFiles == 2
\* number of <font> elements of a manifest document (specification SpecXml)
MaxFonts == 3

(***************************************************************************)
(* Characters and strings.                                                 *)
(***************************************************************************)
None == <<"None">>

UpperCase == <<"A","B","C","D","E","F","G","H","I","J","K","L","M",
               "N","O","P","Q","R","S","T","U","V","W","X","Y","Z">>
LowerCase == <<"a","b","c","d","e","f","g","h","i","j","k","l","m",
               "n","o","p","q","r","s","t","u","v","w","x","y","z">>
Digits == <<"0","1","2","3","4","5","6","7","8","9">>

\* str.lower() of one character
LowerOf == [c \in {UpperCase[k] : k \in 1..26} |->
               LowerCase[CHOOSE k \in 1..26 : UpperCase[k] = c]]
lower(c) == IF c \in DOMAIN LowerOf THEN LowerOf[c] ELSE c

\* str.lower()
Lower(s) == [k \in 1..Len(s) |-> lower(s[k])]

\* str(n) of a non-negative integer
RECURSIVE str(_)
str(n) == IF n < 10 THEN <<Digits[n + 1]>>
          ELSE str(n \div 10) \o <<Digits[(n % 10) + 1]>>

\* the characters str.strip() and the regex class \s treat as whitespace
Whitespace == {" ", "TAB", "LF", "CR", "US"}
\* the code points 0..15 (the ones the model's inputs use)
ControlChars == {"NUL", "SOH", "TAB", "LF", "CR"}
\* byte values >= 0x80, and the character decoded from a multi-byte sequence
NonAsciiBytes == {"xC3", "xA9", "xFF"}
NonAsciiChar == "U+"

\* s.replace(c, '') for every c of a set
Remove(s, chars) == SelectSeq(s, LAMBDA c : c \notin chars)

\* str.strip(chars): leading and trailing characters of the set removed
RECURSIVE LStrip(_, _)
LStrip(s, chars) ==
    IF s # <<>> /\ Head(s) \in chars THEN LStrip(Tail(s), chars) ELSE s

RECURSIVE RStrip(_, _)
RStrip(s, chars) ==
    IF s # <<>> /\ s[Len(s)] \in chars
    THEN RStrip(SubSeq(s, 1, Len(s) - 1), chars) ELSE s

Strip(s, chars) == RStrip(LStrip(s, chars), chars)

\* str.replace(' ', '_') and re.sub(r'[<>:"/\\|?*]', '_', name)
ReplaceChars(s, chars, by) == [k \in 1..Len(s) |-> IF s[k] \in chars THEN by ELSE s[k]]

\* re.sub(<class>+, by, s): every maximal run of characters of the set becomes one `by`
RECURSIVE CollapseRuns(_, _, _)
CollapseRuns(s, chars, by) ==
    IF s = <<>> THEN <<>>
    ELSE IF Head(s) \in chars
         THEN <<by>> \o CollapseRuns(LStrip(s, chars), chars, by)
         ELSE <<Head(s)>> \o CollapseRuns(Tail(s), chars, by)

\* a in b for strings used as prefixes: s starts with p at position k
StartsAt(s, k, p) ==
    /\ k + Len(p) - 1 <= Len(s)
    /\ \A j \in 1..Len(p) : s[k + j - 1] = p[j]

(***************************************************************************)
(* sanitize_filename                                                       *)
(***************************************************************************)
InvalidFilenameChars == {"<", ">", ":", "\"", "/", "\\", "|", "?", "*"}
unnamed == <<"u","n","n","a","m","e","d">>

sanitize_filename(name) ==
    LET stripped == Strip(name, Whitespace)
        spaces   == ReplaceChars(stripped, {" "}, "_")
        invalid  == ReplaceChars(spaces, InvalidFilenameChars, "_")
        runs     == CollapseRuns(invalid, {"_"}, "_")
        trimmed  == Strip(runs, {" ", ".", "_"})
    IN  IF stripped = <<>> THEN unnamed
        ELSE IF trimmed = <<>> THEN unnamed
        ELSE trimmed

(***************************************************************************)
(* pathlib: suffix and stem of a file name                                 *)
(***************************************************************************)
\* name.rfind('.') as a 1-based position, 0 when there is no dot
RFindDot(name) ==
    IF \E k \in 1..Len(name) : name[k] = "."
    THEN CHOOSE k \in 1..Len(name) :
            name[k] = "." /\ \A j \in (k + 1)..Len(name) : name[j] # "."
    ELSE 0

HasSuffix(name) == RFindDot(name) > 1 /\ RFindDot(name) < Len(name)
Suffix(name) == IF HasSuffix(name) THEN SubSeq(name, RFindDot(name), Len(name)) ELSE <<>>
Stem(name) == IF HasSuffix(name) THEN SubSeq(name, 1, RFindDot(name) - 1) ELSE name

dot_ttf == <<".","t","t","f">>
dot_otf == <<".","o","t","f">>

(***************************************************************************)
(* parse_entitlements_xml                                                  *)
(*                                                                         *)
(* A manifest document is a record: parses says whether ET.parse reads it  *)
(* (it raises when there is no entitlements.xml or the file is not         *)
(* well-formed), fonts is the sequence of its <font> elements.  An element *)
(* is a record of its five attributes, an attribute the element does not   *)
(* carry being None.                                                       *)
(***************************************************************************)

Regular == <<"R","e","g","u","l","a","r">>
true == <<"t","r","u","e">>
false == <<"f","a","l","s","e">>

\* font.get(attribute, default)
get(font, attribute, default) ==
    IF font[attribute] = None THEN default ELSE font[attribute]

EmptyMap == [k \in {} |-> None]
Put(map, key, value) ==
    [k \in (DOMAIN map) \cup {key} |-> IF k = key THEN value ELSE map[k]]

\* the guard of line 289
font_entry_ok(font_id, family_name, full_name) ==
    font_id # None /\ family_name # <<>> /\ full_name # <<>>

\* the body of the loop over root.findall(".//font")
font_map_add(font_map, font) ==
    LET font_id        == font.id
        family_name    == get(font, "familyName", <<>>)
        full_name      == get(font, "fullName", <<>>)
        variation      == get(font, "variationName", <<>>)
        variation_name == IF variation = <<>> THEN Regular ELSE variation
        is_variable    == Lower(get(font, "isVariable", false)) = true
    IN  IF font_entry_ok(font_id, family_name, full_name)
        THEN Put(font_map, font_id,
                 [family_name |-> family_name, full_name |-> full_name,
                  variation_name |-> variation_name, is_variable |-> is_variable])
        ELSE font_map

RECURSIVE font_map_of(_, _)
font_map_of(fonts, font_map) ==
    IF fonts = <<>> THEN font_map
    ELSE font_map_of(Tail(fonts), font_map_add(font_map, Head(fonts)))

parse_entitlements_xml(doc) ==
    IF ~doc.parses THEN EmptyMap
    ELSE font_map_of(doc.fonts, EmptyMap)

(***************************************************************************)
(* get_file_extension, over the size and the first four bytes of a file    *)
(***************************************************************************)
MinFontSize == 1024
TTF_MAGIC == <<"NUL", "SOH", "NUL", "NUL">>
OTF_MAGIC == <<"O", "T", "T", "O">>

startswith(header, magic) == StartsAt(header, 1, magic)

get_file_extension(file, default_otf) ==
    IF file.size < MinFontSize THEN <<>>
    ELSE IF startswith(file.header, TTF_MAGIC) THEN dot_ttf
    ELSE IF startswith(file.header, OTF_MAGIC) THEN dot_otf
    ELSE IF default_otf THEN dot_otf ELSE <<>>

(***************************************************************************)
(* clean_name                                                              *)
(***************************************************************************)
\* bytes.decode('utf-16-be', errors='ignore'): one character per aligned pair
\* of bytes, a trailing odd byte ignored
RECURSIVE decode_utf16be(_)
decode_utf16be(val) ==
    IF Len(val) < 2 THEN <<>>
    ELSE (IF val[1] = "NUL" /\ val[2] \notin NonAsciiBytes
          THEN <<val[2]>> ELSE <<NonAsciiChar>>)
         \o decode_utf16be(SubSeq(val, 3, Len(val)))

\* bytes.decode('utf-8', errors='ignore'): a lead byte with its continuation
\* byte is one character, any other byte >= 0x80 is ignored
RECURSIVE decode_utf8(_)
decode_utf8(val) ==
    IF val = <<>> THEN <<>>
    ELSE IF Len(val) >= 2 /\ val[1] = "xC3" /\ val[2] = "xA9"
         THEN <<NonAsciiChar>> \o decode_utf8(SubSeq(val, 3, Len(val)))
    ELSE IF val[1] \in NonAsciiBytes THEN decode_utf8(Tail(val))
    ELSE <<val[1]>> \o decode_utf8(Tail(val))

clean_name(val) ==
    LET decoded  == IF \E k \in 1..Len(val) : val[k] = "NUL"
                    THEN decode_utf16be(val) ELSE decode_utf8(val)
        replaced == Remove(decoded, ControlChars)
        ascii    == Remove(replaced, {NonAsciiChar})
    IN  Strip(ascii, Whitespace)

(***************************************************************************)
(* FAMILY_REGEX and get_base_family                                        *)
(***************************************************************************)
FAMILY_SUFFIXES == {
    <<"B","o","l","d">>, <<"S","e","m","i","b","o","l","d">>,
    <<"I","t","a","l","i","c">>, <<"R","e","g","u","l","a","r">>,
    <<"L","i","g","h","t">>, <<"M","e","d","i","u","m">>,
    <<"B","l","a","c","k">>, <<"T","h","i","n">>,
    <<"V","a","r","i","a","b","l","e">>,
    <<"C","o","n","d","e","n","s","e","d">>,
    <<"E","x","t","e","n","d","e","d">>, <<"P","r","o">>,
    <<"D","i","s","p","l","a","y">>, <<"C","a","p","t">>,
    <<"C","o","n","d">>, <<"W","i","d","e">>, <<"S","m","B","d">>,
    <<"D","e","m","i">> }

\* what the compiled pattern requires around a token: rf"\\b" in a raw string
\* is the two-character regex \\ b, a literal backslash followed by the letter b
FAMILY_REGEX_DELIMITER == <<"\\", "b">>

\* the strings the pattern matches, in lower case (re.IGNORECASE)
FAMILY_REGEX_PATTERNS ==
    { Lower(FAMILY_REGEX_DELIMITER \o token \o FAMILY_REGEX_DELIMITER) :
        token \in FAMILY_SUFFIXES }

\* the length of the match of FAMILY_REGEX at position k of s, 0 if none;
\* folded is s in lower case
FAMILY_REGEX_match(folded, k) ==
    IF folded[k] # FAMILY_REGEX_DELIMITER[1] THEN 0
    ELSE LET found == { p \in FAMILY_REGEX_PATTERNS : StartsAt(folded, k, p) }
         IN  IF found = {} THEN 0 ELSE Len(CHOOSE p \in found : TRUE)

RECURSIVE FAMILY_REGEX_scan(_, _, _)
FAMILY_REGEX_scan(s, folded, k) ==
    IF k > Len(s) THEN <<>>
    ELSE IF FAMILY_REGEX_match(folded, k) > 0
         THEN FAMILY_REGEX_scan(s, folded, k + FAMILY_REGEX_match(folded, k))
         ELSE <<s[k]>> \o FAMILY_REGEX_scan(s, folded, k + 1)

\* FAMILY_REGEX.sub('', s)
FAMILY_REGEX_sub(s) == FAMILY_REGEX_scan(s, Lower(s), 1)

\* None where a NameRecord is expected
NoRecord == [none |-> TRUE]

\* name_table.getName(nameID, platformID, platEncID): the first such record or None
getName(name_table, nameID, platformID, platEncID) ==
    LET hits == { k \in 1..Len(name_table) :
                    /\ name_table[k].nameID = nameID
                    /\ name_table[k].platformID = platformID
                    /\ name_table[k].platEncID = platEncID }
    IN  IF hits = {} THEN NoRecord
        ELSE name_table[CHOOSE k \in hits : \A j \in hits : k <= j]

Unknown == <<"U","n","k","n","o","w","n">>

get_base_family(name_table) ==
    LET fam16 == getName(name_table, 16, 3, 1)
        fam1w == getName(name_table, 1, 3, 1)
        fam1m == getName(name_table, 1, 1, 0)
        fam   == IF fam16 # NoRecord THEN fam16
                 ELSE IF fam1w # NoRecord THEN fam1w ELSE fam1m
    IN  IF fam # NoRecord
        THEN LET base     == clean_name(fam.string)
                 stripped == Strip(FAMILY_REGEX_sub(base), Whitespace)
             IN  Strip(CollapseRuns(stripped, Whitespace, " "), Whitespace)
        ELSE Unknown

\* detect_font_type, over the set of table tags of the opened font
detect_font_type(font) ==
    IF "CFF " \in font.tables \/ "CFF2" \in font.tables THEN <<"o","t","f">>
    ELSE <<"t","t","f">>

(***************************************************************************)
(* The inputs of a run: the manifest document and the files enumerated by  *)
(* livetype.rglob('*').  A file is its relative directory, its name, its   *)
(* size in bytes, its first four bytes and what fontTools reads from it:   *)
(* font.opens (TTFont() returns), font.tables (the table tags) and         *)
(* font.names (the records of the name table, in table order).             *)
(***************************************************************************)
\* the UTF-16BE bytes of an ASCII string
utf16be(s) == [k \in 1..(2 * Len(s)) |-> IF k % 2 = 1 THEN "NUL" ELSE s[k \div 2]]

NameRecord(nameID, platformID, platEncID, string) ==
    [nameID |-> nameID, platformID |-> platformID, platEncID |-> platEncID,
     string |-> string]

f1 == <<"f","1">>
f2 == <<"f","2">>
f3 == <<"f","3">>
Acme_Sans == <<"A","c","m","e"," ","S","a","n","s">>
Acme_Sans_Bold == Acme_Sans \o <<" ","B","o","l","d">>
Acme_Sans_Var == Acme_Sans \o <<" ","V","a","r">>
Bold == <<"B","o","l","d">>
Widget_Pro_Bold == <<"W","i","d","g","e","t"," ","P","r","o"," ","B","o","l","d">>
Widget == <<"W","i","d","g","e","t">>
Acme_Sans_Bold_otf ==
    <<"A","c","m","e","_","S","a","n","s","_","B","o","l","d">> \o dot_otf

FontElement(id, familyName, fullName, variationName, isVariable) ==
    [id |-> id, familyName |-> familyName, fullName |-> fullName,
     variationName |-> variationName, isVariable |-> isVariable]

font_f1       == FontElement(f1, Acme_Sans, Acme_Sans_Bold, Bold, None)
font_f2       == FontElement(f2, Acme_Sans, Acme_Sans_Var, None, <<"T","r","u","e">>)
font_no_id    == FontElement(None, Acme_Sans, Acme_Sans_Bold, Bold, false)
font_empty_id == FontElement(<<>>, Acme_Sans, Acme_Sans_Bold, Bold, None)
font_no_family  == FontElement(f3, None, Acme_Sans_Bold, None, true)
font_empty_full == FontElement(f1, Acme_Sans, <<>>, Bold, None)

FontElements ==
    {font_f1, font_f2, font_no_id, font_empty_id, font_no_family, font_empty_full}

\* the manifests of the pipeline: none (ET.parse raises), and a readable one
Manifest(exists, parses, fonts) == [exists |-> exists, parses |-> parses, fonts |-> fonts]
Manifests ==
    { Manifest(FALSE, FALSE, <<>>),
      Manifest(TRUE, TRUE, <<font_f1, font_f2, font_no_family>>) }

\* the manifests of the parser on its own
XmlDocuments ==
    { Manifest(TRUE, parses, fonts) :
        parses \in BOOLEAN,
        fonts \in UNION { [1..n -> FontElements] : n \in 0..MaxFonts } }

junk == <<"j","u","n","k">>
NoFont == [opens |-> FALSE, tables |-> {}, names |-> <<>>]
Font(tables, names) == [opens |-> TRUE, tables |-> tables, names |-> names]
File(dir, name, size, header, font) ==
    [dir |-> dir, name |-> name, size |-> size, header |-> header, font |-> font]

entitlements_xml ==
    File(<<>>, <<"e","n","t","i","t","l","e","m","e","n","t","s",".","x","m","l">>,
         2048, <<"<","?","x","m">>, NoFont)

Catalog == {
    \* named by a manifest identifier, corrupt content, 2 KiB, in a subdirectory
    File(<<"s","u","b">>, f1, 2048, junk, NoFont),
    \* named by a manifest identifier, corrupt content, 200 bytes, no font extension
    File(<<>>, f1 \o <<".","b","i","n">>, 200, junk, NoFont),
    \* named by a manifest identifier, corrupt content, 200 bytes, font extension
    \* (without the manifest: a font by its extension that fontTools cannot read)
    File(<<>>, f2 \o dot_ttf, 200, junk, NoFont),
    \* OTTO font, no extension, Windows family record "Widget Pro Bold"
    File(<<>>, <<"b">>, 2048, OTF_MAGIC,
         Font({"CFF ", "name"}, <<NameRecord(1, 3, 1, utf16be(Widget_Pro_Bold))>>)),
    \* OTTO font already named as its family, Macintosh records
    File(<<>>, <<"W","i","d","g","e","t","_","P","r","o","_","B","o","l","d">> \o dot_otf,
         2048, OTF_MAGIC,
         Font({"CFF ", "name"}, <<NameRecord(1, 1, 0, Widget_Pro_Bold),
                                  NameRecord(2, 1, 0, Bold)>>)),
    \* a 600-byte OTTO font in a subdirectory; it carries the name
    \* copy_and_unhide_all gives the copy of sub/f1, and its name table holds an
    \* empty Macintosh family record before the Windows one, and two subfamily
    \* records
    File(<<"s","u","b">>, Acme_Sans_Bold_otf, 600, OTF_MAGIC,
         Font({"CFF ", "name"},
              <<NameRecord(1, 1, 0, <<>>),
                NameRecord(1, 3, 1, utf16be(Widget_Pro_Bold)),
                NameRecord(2, 3, 1, utf16be(Bold)),
                NameRecord(2, 3, 1, utf16be(Regular))>>)) }

Path(dir, name) == [dir |-> dir, name |-> name]
PathOf(file) == Path(file.dir, file.name)

\* the enumerations of at most MaxFiles files of the catalog, each path once,
\* and of entitlements.xml if there is one
FileLists(with_manifest) ==
    { files \in UNION { [1..n -> Catalog \cup {entitlements_xml}] :
                          n \in 0..(MaxFiles + 1) } :
        /\ \A j, k \in 1..Len(files) : j # k => PathOf(files[j]) # PathOf(files[k])
        /\ with_manifest <=> (\E k \in 1..Len(files) : files[k] = entitlements_xml)
        /\ Len(files) <= (IF with_manifest THEN MaxFiles + 1 ELSE MaxFiles) }

\* every enumeration of a set of paths
Enumerations(paths) ==
    { order \in [1..Cardinality(paths) -> paths] :
        \A j, k \in 1..Cardinality(paths) : j # k => order[j] # order[k] }

(***************************************************************************)
(* The state of a run of main().                                           *)
(***************************************************************************)
VARIABLES
    manifest,          \* the entitlements.xml document
    all_files,         \* livetype.rglob('*'), in enumeration order
    pc,                \* the phase main() is in
    i,                 \* the position of the phase's loop
    xml_metadata,      \* the mapping parse_entitlements_xml returned
    copied_files,      \* copy_and_unhide_all: (path, xml_id, rel_path)
    working,           \* the working directory: path -> index of the source file
    font_files,        \* parse_fonts: working.rglob('*'), in enumeration order
    metadata_list,     \* parse_fonts: the rows
    skipped_nonfonts,  \* parse_fonts: the counter
    csv,               \* metadata.csv: [written, rows]
    new_files,         \* rename_and_unhide_files: the files handed to the organizer
    seen_paths,        \* rename_and_unhide_files: the paths to keep
    done,              \* the DONE tree: path -> index of the source file
    done_dirs,         \* the family folders of the DONE tree
    log,               \* what the logger has recorded
    result,            \* how the run ended: running, no_fonts, aborted, crashed, all_done
    exit_code          \* the exit status of the process, -1 while it runs

vars == <<manifest, all_files, pc, i, xml_metadata, copied_files, working,
          font_files, metadata_list, skipped_nonfonts, csv, new_files,
          seen_paths, done, done_dirs, log, result, exit_code>>

inputs == <<manifest, all_files>>

InitRest ==
    /\ pc = "start"
    /\ i = 1
    /\ xml_metadata = EmptyMap
    /\ copied_files = <<>>
    /\ working = EmptyMap
    /\ font_files = <<>>
    /\ metadata_list = <<>>
    /\ skipped_nonfonts = 0
    /\ csv = [written |-> FALSE, rows |-> <<>>]
    /\ new_files = <<>>
    /\ seen_paths = {}
    /\ done = EmptyMap
    /\ done_dirs = {}
    /\ log = <<>>
    /\ result = "running"
    /\ exit_code = -1

\* entitlements.xml, when there is one, is one of the files of the livetype folder
Init ==
    /\ manifest \in Manifests
    /\ all_files \in FileLists(manifest.exists)
    /\ InitRest

Logged(op, file) == Append(log, [op |-> op, file |-> file])

(***************************************************************************)
(* copy_and_unhide_all                                                     *)
(***************************************************************************)
\* line 327
ParseEntitlements ==
    /\ pc = "start"
    /\ xml_metadata' = parse_entitlements_xml(manifest)
    /\ pc' = "copy"
    /\ UNCHANGED <<inputs, i, copied_files, working, font_files, metadata_list,
                   skipped_nonfonts, csv, new_files, seen_paths, done, done_dirs,
                   log, result, exit_code>>

\* the names of the files of one directory of a tree
NamesIn(tree, dir) == { p.name : p \in { q \in DOMAIN tree : q.dir = dir } }

\* the loops of lines 348-351, 539-544 and 586-589: base + ext, then
\* base_1 + ext, base_2 + ext, ... until the name is not one of `taken`
RECURSIVE unique_name(_, _, _, _)
unique_name(base, ext, taken, unique_id) ==
    LET new_name == IF unique_id = 0 THEN base \o ext
                    ELSE base \o <<"_">> \o str(unique_id) \o ext
    IN  IF new_name \in taken THEN unique_name(base, ext, taken, unique_id + 1)
        ELSE new_name

\* a Python value used as a condition
truthy(value) == value # None /\ value # <<>>

\* one iteration of the loop of line 331
CopyFile ==
    /\ pc = "copy"
    /\ i <= Len(all_files)
    /\ LET src       == all_files[i]
           rel_path  == PathOf(src)
           dest_path == rel_path
           orig_stem == Stem(src.name)
           xml_id    == IF orig_stem \in DOMAIN xml_metadata THEN orig_stem ELSE None
       IN  IF truthy(xml_id)
           THEN LET ext  == IF Suffix(src.name) \in {dot_ttf, dot_otf}
                            THEN Suffix(src.name)
                            ELSE get_file_extension(src, TRUE)
                    meta == xml_metadata[xml_id]
                    family    == ReplaceChars(meta.family_name, {" "}, "_")
                    variation == ReplaceChars(meta.variation_name, {" "}, "_")
                    new_name  == unique_name(family \o <<"_">> \o variation, ext,
                                             NamesIn(working, dest_path.dir), 0)
                    new_path  == Path(dest_path.dir, new_name)
                IN  /\ working' = Put(working, new_path, i)
                    /\ copied_files' = Append(copied_files,
                          [path |-> new_path, xml_id |-> xml_id, rel_path |-> rel_path])
                    /\ log' = Logged("renamed_copy", new_path)
           ELSE /\ working' = Put(working, dest_path, i)
                /\ copied_files' = Append(copied_files,
                      [path |-> dest_path, xml_id |-> None, rel_path |-> rel_path])
                /\ log' = Logged("copied", dest_path)
    /\ i' = i + 1
    /\ UNCHANGED <<inputs, pc, xml_metadata, font_files, metadata_list,
                   skipped_nonfonts, csv, new_files, seen_paths, done, done_dirs,
                   result, exit_code>>

(***************************************************************************)
(* parse_fonts                                                             *)
(***************************************************************************)
\* lines 417-425: the working directory is enumerated, in the order the
\* filesystem gives
StartParse ==
    /\ pc = "copy"
    /\ i > Len(all_files)
    /\ font_files' \in Enumerations(DOMAIN working)
    /\ pc' = "parse"
    /\ i' = 1
    /\ UNCHANGED <<inputs, xml_metadata, copied_files, working, metadata_list,
                   skipped_nonfonts, csv, new_files, seen_paths, done, done_dirs,
                   log, result, exit_code>>

\* rel_to_xml.get(f, None), rel_to_xml built by lines 422-425
rel_to_xml_get(f) ==
    LET hits == { k \in 1..Len(copied_files) :
                    copied_files[k].path = f /\ truthy(copied_files[k].xml_id) }
    IN  IF hits = {} THEN None
        ELSE copied_files[CHOOSE k \in hits : \A j \in hits : j <= k].xml_id

\* lines 429-439
is_font(f, file) ==
    \/ Lower(Suffix(f.name)) \in {dot_ttf, dot_otf}
    \/ startswith(file.header, TTF_MAGIC)
    \/ startswith(file.header, OTF_MAGIC)

\* x or default
or(value, default) == IF value = <<>> THEN default ELSE value

VARIABLE_ == <<"V","A","R","I","A","B","L","E">>

\* lines 446-464, mutated: the style is the variation name even for a variable font
xml_row_plain_style(f, file, xml_id) ==
    LET meta == xml_metadata[xml_id]
    IN  [current_name |-> f,
         file_type |-> LStrip(get_file_extension(file, TRUE), {"."}),
         font_name |-> or(meta.full_name, Unknown), weight |-> meta.variation_name,
         style |-> meta.variation_name, is_variable |-> meta.is_variable,
         base_family |-> or(meta.family_name, Unknown), xml_id |-> xml_id]

\* lines 446-464: the row of a file matched by the manifest
xml_row(f, file, xml_id) ==
    LET meta == xml_metadata[xml_id]
        font_name   == meta.full_name
        weight      == meta.variation_name
        style       == IF meta.is_variable THEN VARIABLE_ ELSE meta.variation_name
        base_family == meta.family_name
        file_type   == LStrip(get_file_extension(file, TRUE), {"."})
    IN  [current_name |-> f, file_type |-> file_type,
         font_name |-> or(font_name, Unknown), weight |-> weight, style |-> style,
         is_variable |-> meta.is_variable,
         base_family |-> or(base_family, Unknown), xml_id |-> xml_id]

\* lines 474-481: the loop over name_table.names, from record k on
RECURSIVE scan_names(_, _, _)
scan_names(names, k, found) ==
    IF k > Len(names) THEN found
    ELSE LET record == names[k]
             val    == record.string
             name1  == IF record.nameID = 1 /\ found.font_name = <<>>
                       THEN clean_name(val) ELSE found.font_name
             name2  == IF record.nameID = 2 /\ found.weight = <<>>
                       THEN clean_name(val) ELSE found.weight
             name17 == IF record.nameID = 17
                       THEN clean_name(val) ELSE found.style
         IN  scan_names(names, k + 1,
                        [font_name |-> name1, weight |-> name2, style |-> name17])

\* lines 468-497: the row of a file read by fontTools
fallback_row(f, file) ==
    LET font        == file.font
        is_variable == "fvar" \in font.tables
        name_table  == font.names
        found       == scan_names(name_table, 1,
                          [font_name |-> <<>>, weight |-> <<>>, style |-> <<>>])
        style       == IF is_variable THEN VARIABLE_ ELSE found.style
        file_type   == detect_font_type(font)
        base_family == get_base_family(name_table)
    IN  [current_name |-> f, file_type |-> file_type,
         font_name |-> or(found.font_name, Unknown), weight |-> found.weight,
         style |-> style, is_variable |-> is_variable,
         base_family |-> or(base_family, Unknown), xml_id |-> None]

\* TTFont(str(f)) and font['name'] do not raise
font_readable(file) == file.font.opens /\ "name" \in file.font.tables

\* lines 465 and 497, mutated: the row is put in front
add_row_first(rows, row) == <<row>> \o rows

\* lines 465 and 497: metadata_list.append(metadata)
add_row(rows, row) == Append(rows, row)

\* one iteration of the loop of line 426
ParseFile ==
    /\ pc = "parse"
    /\ i <= Len(font_files)
    /\ LET f      == font_files[i]
           file   == all_files[working[f]]
           xml_id == rel_to_xml_get(f)
       IN  IF ~is_font(f, file)
           THEN /\ skipped_nonfonts' = skipped_nonfonts + 1
                /\ log' = Logged("skipped", f)
                /\ UNCHANGED metadata_list
           ELSE IF truthy(xml_id) /\ xml_id \in DOMAIN xml_metadata
           THEN /\ metadata_list' = add_row(metadata_list, xml_row(f, file, xml_id))
                /\ log' = Logged("processed", f)
                /\ UNCHANGED skipped_nonfonts
           ELSE IF font_readable(file)
           THEN /\ metadata_list' = add_row(metadata_list, fallback_row(f, file))
                /\ log' = Logged("processed", f)
                /\ UNCHANGED skipped_nonfonts
           ELSE /\ log' = Logged("failed", f)
                /\ UNCHANGED <<metadata_list, skipped_nonfonts>>
    /\ i' = i + 1
    /\ UNCHANGED <<inputs, pc, xml_metadata, copied_files, working, font_files,
                   csv, new_files, seen_paths, done, done_dirs, result, exit_code>>

\* lines 511-514: nothing resolved, sys.exit(0)
NoValidFonts ==
    /\ pc = "parse"
    /\ i > Len(font_files)
    /\ metadata_list = <<>>
    /\ log' = Logged("no_valid_fonts", Path(<<>>, <<>>))
    /\ pc' = "exit"
    /\ result' = "no_fonts"
    /\ exit_code' = 0
    /\ UNCHANGED <<inputs, i, xml_metadata, copied_files, working, font_files,
                   metadata_list, skipped_nonfonts, csv, new_files, seen_paths,
                   done, done_dirs>>

\* lines 511-516, mutated: parse_fonts returns the rows even when there are none
ParseDoneUnchecked ==
    /\ pc = "parse"
    /\ i > Len(font_files)
    /\ pc' = "csv"
    /\ UNCHANGED <<inputs, i, xml_metadata, copied_files, working, font_files,
                   metadata_list, skipped_nonfonts, csv, new_files, seen_paths,
                   done, done_dirs, log, result, exit_code>>

\* lines 611-613, mutated: main() renames before the ledger is written
ParseDoneThenRename ==
    /\ pc = "parse"
    /\ i > Len(font_files)
    /\ metadata_list # <<>>
    /\ pc' = "rename"
    /\ i' = 1
    /\ UNCHANGED <<inputs, xml_metadata, copied_files, working, font_files,
                   metadata_list, skipped_nonfonts, csv, new_files, seen_paths,
                   done, done_dirs, log, result, exit_code>>

\* lines 515-516: parse_fonts returns the rows
ParseDone ==
    /\ pc = "parse"
    /\ i > Len(font_files)
    /\ metadata_list # <<>>
    /\ pc' = "csv"
    /\ UNCHANGED <<inputs, i, xml_metadata, copied_files, working, font_files,
                   metadata_list, skipped_nonfonts, csv, new_files, seen_paths,
                   done, done_dirs, log, result, exit_code>>

(***************************************************************************)
(* write_metadata_csv                                                      *)
(***************************************************************************)
WriteCsv ==
    /\ pc = "csv"
    /\ csv' = [written |-> TRUE, rows |-> metadata_list]
    /\ log' = Logged("wrote_csv", Path(<<>>, <<>>))
    /\ pc' = "rename"
    /\ i' = 1
    /\ UNCHANGED <<inputs, xml_metadata, copied_files, working, font_files,
                   metadata_list, skipped_nonfonts, new_files, seen_paths, done,
                   done_dirs, result, exit_code>>

(***************************************************************************)
(* rename_and_unhide_files                                                 *)
(***************************************************************************)
\* line 524
dotted(file_type) ==
    IF startswith(file_type, <<".">>) THEN file_type ELSE <<".">> \o file_type

\* lines 532-536
safe_base_of(meta) ==
    sanitize_filename(IF meta.font_name # <<>> /\ meta.style # <<>>
                      THEN meta.font_name \o <<"_">> \o meta.style
                      ELSE meta.font_name)

\* lines 537-544, mutated: the proposed name is taken without looking at the directory
rename_target_unchecked(meta, tree) ==
    Path(meta.current_name.dir, safe_base_of(meta) \o dotted(meta.file_type))

\* lines 537-544: the first of base.ext, base_1.ext, ... that is free or is the
\* file's own name
rename_target(meta, tree) ==
    LET old_path == meta.current_name
    IN  Path(old_path.dir,
             unique_name(safe_base_of(meta), dotted(meta.file_type),
                         NamesIn(tree, old_path.dir) \ {old_path.name}, 0))

\* a tree after old_path.rename(new_path) or shutil.move(old_path, new_path)
Without(tree, path) == [p \in (DOMAIN tree) \ {path} |-> tree[p]]

Kept(path, base_family) == [path |-> path, base_family |-> base_family]

\* line 546: the file is there under another name, so it is renamed
must_rename(meta) ==
    /\ ~truthy(meta.xml_id)
    /\ meta.current_name \in DOMAIN working
    /\ meta.current_name # rename_target(meta, working)

\* one iteration of the loop of line 522 in which nothing raises
RenameFile ==
    /\ pc = "rename"
    /\ i <= Len(metadata_list)
    /\ LET meta     == metadata_list[i]
           old_path == meta.current_name
           new_path == rename_target(meta, working)
       IN  IF truthy(meta.xml_id)
           THEN IF old_path \in DOMAIN working
                THEN /\ new_files' = Append(new_files, Kept(old_path, meta.base_family))
                     /\ seen_paths' = seen_paths \cup {old_path}
                     /\ UNCHANGED <<working, log>>
                ELSE UNCHANGED <<new_files, seen_paths, working, log>>
           ELSE /\ IF must_rename(meta)
                   THEN /\ working' = Put(Without(working, old_path), new_path,
                                          working[old_path])
                        /\ log' = Logged("renamed", old_path)
                   ELSE UNCHANGED <<working, log>>
                /\ new_files' = Append(new_files, Kept(new_path, meta.base_family))
                /\ seen_paths' = seen_paths \cup {new_path}
    /\ i' = i + 1
    /\ UNCHANGED <<inputs, pc, xml_metadata, copied_files, font_files,
                   metadata_list, skipped_nonfonts, csv, done, done_dirs,
                   result, exit_code>>

\* lines 551-554: old_path.rename raises and the user answers y
RenameFailsContinue ==
    /\ pc = "rename"
    /\ i <= Len(metadata_list)
    /\ must_rename(metadata_list[i])
    /\ log' = Logged("rename_failed", metadata_list[i].current_name)
    /\ i' = i + 1
    /\ UNCHANGED <<inputs, pc, xml_metadata, copied_files, working, font_files,
                   metadata_list, skipped_nonfonts, csv, new_files, seen_paths,
                   done, done_dirs, result, exit_code>>

\* lines 551-556, mutated: the refusal is logged but the loop goes on
RenameFailsAbortIgnored ==
    /\ pc = "rename"
    /\ i <= Len(metadata_list)
    /\ must_rename(metadata_list[i])
    /\ log' = Append(Logged("rename_failed", metadata_list[i].current_name),
                     [op |-> "user_aborted", file |-> metadata_list[i].current_name])
    /\ i' = i + 1
    /\ UNCHANGED <<inputs, pc, xml_metadata, copied_files, working, font_files,
                   metadata_list, skipped_nonfonts, csv, new_files, seen_paths,
                   done, done_dirs, result, exit_code>>

\* lines 551-556: old_path.rename raises and the user answers anything else
RenameFailsAbort ==
    /\ pc = "rename"
    /\ i <= Len(metadata_list)
    /\ must_rename(metadata_list[i])
    /\ log' = Append(Logged("rename_failed", metadata_list[i].current_name),
                     [op |-> "user_aborted", file |-> metadata_list[i].current_name])
    /\ pc' = "exit"
    /\ result' = "aborted"
    /\ exit_code' = 1
    /\ UNCHANGED <<inputs, i, xml_metadata, copied_files, working, font_files,
                   metadata_list, skipped_nonfonts, csv, new_files, seen_paths,
                   done, done_dirs>>

\* lines 557-567: what is not in seen_paths is removed from the working directory
Cleanup ==
    /\ pc = "rename"
    /\ i > Len(metadata_list)
    /\ working' = [p \in (DOMAIN working) \cap seen_paths |-> working[p]]
    /\ pc' = "organize"
    /\ i' = 1
    /\ UNCHANGED <<inputs, xml_metadata, copied_files, font_files, metadata_list,
                   skipped_nonfonts, csv, new_files, seen_paths, done, done_dirs,
                   log, result, exit_code>>

(***************************************************************************)
(* organize_files                                                          *)
(***************************************************************************)
\* line 583
family_folder(f) == sanitize_filename(f.base_family)

\* lines 585-589, mutated: the file keeps its name whatever the folder holds
organize_target_unchecked(f, tree) == Path(family_folder(f), f.path.name)

\* lines 585-589
organize_target(f, tree) ==
    Path(family_folder(f),
         unique_name(Stem(f.path.name), Suffix(f.path.name),
                     NamesIn(tree, family_folder(f)), 0))

\* one iteration of the loop of line 582 in which mkdir does not raise: the
\* move succeeds, or it raises and is logged
OrganizeFile ==
    /\ pc = "organize"
    /\ i <= Len(new_files)
    /\ LET f    == new_files[i]
           dest == organize_target(f, done)
       IN  /\ done_dirs' = done_dirs \cup {family_folder(f)}
           /\ \/ /\ f.path \in DOMAIN working
                 /\ done' = Put(done, dest, working[f.path])
                 /\ working' = Without(working, f.path)
                 /\ log' = Logged("moved", f.path)
              \/ /\ log' = Logged("move_failed", f.path)
                 /\ UNCHANGED <<done, working>>
    /\ i' = i + 1
    /\ UNCHANGED <<inputs, pc, xml_metadata, copied_files, font_files,
                   metadata_list, skipped_nonfonts, csv, new_files, seen_paths,
                   result, exit_code>>

\* line 584: family_folder.mkdir raises, outside the try of line 590; nothing
\* catches it and the interpreter ends the process with status 1
OrganizeMkdirFails ==
    /\ pc = "organize"
    /\ i <= Len(new_files)
    /\ family_folder(new_files[i]) \notin done_dirs
    /\ pc' = "exit"
    /\ result' = "crashed"
    /\ exit_code' = 1
    /\ UNCHANGED <<inputs, i, xml_metadata, copied_files, working, font_files,
                   metadata_list, skipped_nonfonts, csv, new_files, seen_paths,
                   done, done_dirs, log>>

\* lines 615-616
Finish ==
    /\ pc = "organize"
    /\ i > Len(new_files)
    /\ log' = Logged("finished", Path(<<>>, <<>>))
    /\ pc' = "exit"
    /\ result' = "all_done"
    /\ exit_code' = 0
    /\ UNCHANGED <<inputs, i, xml_metadata, copied_files, working, font_files,
                   metadata_list, skipped_nonfonts, csv, new_files, seen_paths,
                   done, done_dirs>>

Next ==
    \/ ParseEntitlements
    \/ CopyFile
    \/ StartParse
    \/ ParseFile
    \/ NoValidFonts
    \/ ParseDone
    \/ WriteCsv
    \/ RenameFile
    \/ RenameFailsContinue
    \/ RenameFailsAbort
    \/ Cleanup
    \/ OrganizeFile
    \/ OrganizeMkdirFails
    \/ Finish

Spec == Init /\ [][Next]_vars

\* the manifest parser on its own
InitXml ==
    /\ manifest \in XmlDocuments
    /\ all_files = <<entitlements_xml>>
    /\ InitRest

SpecXml == InitXml /\ [][ParseEntitlements]_vars

TypeOK ==
    /\ pc \in {"start", "copy", "parse", "csv", "rename", "organize", "exit"}
    /\ result \in {"running", "no_fonts", "aborted", "crashed", "all_done"}
    /\ exit_code \in {-1, 0, 1}
    /\ (pc = "exit") <=> (exit_code # -1)

(***************************************************************************)
(* Properties.                                                             *)
(***************************************************************************)
\* the resolution pass of parse_fonts is over
ParsePassed == pc \in {"csv", "rename", "organize", "exit"}

Range(seq) == { seq[k] : k \in 1..Len(seq) }
present(attribute) == attribute # None /\ attribute # <<>>

\* the entries the manifest declares: the elements with an identifier, a family
\* name and a full name
ManifestEntries ==
    IF manifest.parses
    THEN { e \in Range(manifest.fonts) :
             present(e.id) /\ present(e.familyName) /\ present(e.fullName) }
    ELSE {}

variationName(e) == IF present(e.variationName) THEN e.variationName ELSE Regular
isVariable(e) == e.isVariable # None /\ Lower(e.isVariable) = true

\* the file copied to `path` has a row that carries the fields of entry e
ResolvedThroughManifest(path, e) ==
    \E k \in 1..Len(metadata_list) :
        LET row == metadata_list[k]
        IN  /\ row.current_name = path
            /\ row.font_name = e.fullName
            /\ row.weight = variationName(e)
            /\ row.base_family = e.familyName
            /\ row.is_variable = isVariable(e)
            /\ row.style = (IF isVariable(e) THEN VARIABLE_ ELSE variationName(e))
            /\ row.xml_id = e.id

\* the file is recognised as a font container without the manifest's help
font_by_name_or_signature(file) ==
    \/ Suffix(file.name) \in {dot_ttf, dot_otf}
    \/ startswith(file.header, TTF_MAGIC)
    \/ startswith(file.header, OTF_MAGIC)

\* C1, as stated: every source file whose stem is a manifest identifier, whatever
\* its content, size or extension, has a ledger row with the fields of the
\* manifest entry.
C1_AsStated ==
    ParsePassed =>
        \A k \in 1..Len(all_files) : \A e \in ManifestEntries :
            Stem(all_files[k].name) = e.id
                => ResolvedThroughManifest(copied_files[k].path, e)

\* C1, amended: every source file whose stem is a manifest identifier and that
\* is at least 1 KiB, or carries a .ttf/.otf extension, or begins with a font
\* signature, has a ledger row with the fields of the manifest entry: font_name
\* the fullName, weight the variationName, base_family the familyName,
\* is_variable the isVariable, style VARIABLE or the variationName, xml_id the
\* identifier.  Its content is never parsed.
C1_ManifestMatchResolves ==
    ParsePassed =>
        \A k \in 1..Len(all_files) : \A e \in ManifestEntries :
            /\ Stem(all_files[k].name) = e.id
            /\ \/ all_files[k].size >= MinFontSize
               \/ font_by_name_or_signature(all_files[k])
            => ResolvedThroughManifest(copied_files[k].path, e)

\* a corrupt 2 KiB file named by a manifest identifier has been resolved
C1_Witness ==
    /\ ParsePassed
    /\ \E k \in 1..Len(all_files) : \E e \in ManifestEntries :
          /\ Stem(all_files[k].name) = e.id
          /\ all_files[k].size >= MinFontSize
          /\ ~all_files[k].font.opens
          /\ ResolvedThroughManifest(copied_files[k].path, e)

\* C2, as stated: the mapping the manifest parser returns holds an entry only
\* under a non-empty identifier and with a non-empty family name and full name.
C2_AsStated ==
    pc # "start" =>
        \A id \in DOMAIN xml_metadata :
            /\ present(id)
            /\ present(xml_metadata[id].family_name)
            /\ present(xml_metadata[id].full_name)

\* the k-th name the namer tries: base.ext, base_1.ext, base_2.ext, ...
Candidate(base, ext, k) ==
    IF k = 0 THEN base \o ext ELSE base \o <<"_">> \o str(k) \o ext

\* name is the first candidate that is not one of `taken`
FirstFree(name, base, ext, taken) ==
    \E k \in 0..Cardinality(taken) :
        /\ name = Candidate(base, ext, k)
        /\ name \notin taken
        /\ \A j \in 0..(k - 1) : Candidate(base, ext, j) \in taken

\* the row is renamed by the rename phase (it was not matched by the manifest)
unmatched(row) == ~truthy(row.xml_id)
proposed(row) == safe_base_of(row) \o dotted(row.file_type)

\* the rows before row k that propose the same name in the same directory
Colliding(k) ==
    { j \in 1..(k - 1) :
        /\ unmatched(metadata_list[j])
        /\ metadata_list[j].current_name.dir = metadata_list[k].current_name.dir
        /\ proposed(metadata_list[j]) = proposed(metadata_list[k]) }

\* C3, as stated: of the files proposed with the same base name and extension
\* in one directory, the first is named base.ext, the second base_1.ext, the
\* third base_2.ext, ...
C3_AsStated ==
    (pc = "rename" /\ Len(new_files) = i - 1) =>
        \A k \in 1..Len(new_files) :
            unmatched(metadata_list[k]) =>
                new_files[k].path.name =
                    Candidate(safe_base_of(metadata_list[k]),
                              dotted(metadata_list[k].file_type),
                              Cardinality(Colliding(k)))

\* a tree keeps every file it held under the name it had, or loses it
NoOverwrite(before, after) ==
    \A p \in (DOMAIN before) \cap (DOMAIN after) : after[p] = before[p]

Distinct(seq) == \A j, k \in 1..Len(seq) : j # k => seq[j] # seq[k]

\* C3, amended: the rename phase and the organizer give a file the first of
\* base.ext, base_1.ext, base_2.ext, ... that no other file of the target
\* directory holds at that moment; the names handed on are pairwise distinct and
\* no rename or move replaces a file that is already there.  (The second of two
\* colliding files gets _1 only if base.ext was free for the first and base_1.ext
\* is free for the second.)
C3_CollisionSafe ==
    [][ /\ (pc = "rename" /\ Len(new_files') > Len(new_files)
              /\ unmatched(metadata_list[i])) =>
            LET row == metadata_list[i]
                new == new_files'[Len(new_files')].path
            IN  /\ new.dir = row.current_name.dir
                /\ FirstFree(new.name, safe_base_of(row), dotted(row.file_type),
                             NamesIn(working, new.dir) \ {row.current_name.name})
                /\ new \in DOMAIN working'
        /\ (pc = "organize" /\ DOMAIN done' # DOMAIN done) =>
            LET f    == new_files[i]
                dest == CHOOSE p \in DOMAIN done' : p \notin DOMAIN done
            IN  /\ dest.dir = sanitize_filename(f.base_family)
                /\ FirstFree(dest.name, Stem(f.path.name), Suffix(f.path.name),
                             NamesIn(done, dest.dir))
                /\ done'[dest] = working[f.path]
        /\ pc \in {"rename", "organize"} =>
            /\ NoOverwrite(working, working')
            /\ NoOverwrite(done, done')
            /\ Distinct([k \in 1..Len(new_files') |-> new_files'[k].path])
      ]_vars

Widget_Pro_Bold_otf ==
    <<"W","i","d","g","e","t","_","P","r","o","_","B","o","l","d">> \o dot_otf
Widget_Pro_Bold_1_otf ==
    <<"W","i","d","g","e","t","_","P","r","o","_","B","o","l","d","_","1">> \o dot_otf

\* two files that proposed the same name have been filed side by side, the
\* second under the suffix _1
C3_Witness ==
    \E p, q \in DOMAIN done :
        /\ p.dir = q.dir
        /\ p.name = Widget_Pro_Bold_otf
        /\ q.name = Widget_Pro_Bold_1_otf

WordChars ==
    Range(UpperCase) \cup Range(LowerCase) \cup Range(Digits) \cup {"_"}

\* token stands in s at position k as a whole word, in any case
WholeWordAt(s, k, token) ==
    /\ StartsAt(Lower(s), k, Lower(token))
    /\ k = 1 \/ s[k - 1] \notin WordChars
    /\ k + Len(token) > Len(s) \/ s[k + Len(token)] \notin WordChars

HasStyleWord(s) ==
    \E token \in FAMILY_SUFFIXES : \E k \in 1..Len(s) : WholeWordAt(s, k, token)

\* C4, as stated: the base_family of a file resolved by binary introspection
\* holds no style/weight token as a whole word; the name-table family
\* "Widget Pro Bold" gives base_family "Widget" and the folder Widget/.
C4_AsStated ==
    /\ \A k \in 1..Len(metadata_list) :
          LET row == metadata_list[k]
          IN  unmatched(row) =>
                /\ ~HasStyleWord(row.base_family)
                /\ row.font_name = Widget_Pro_Bold => row.base_family = Widget
    /\ sanitize_filename(Widget_Pro_Bold) \notin done_dirs

\* C5, as stated: no file smaller than 1 KiB has a ledger row or is filed into
\* the output tree.
C5_AsStated ==
    /\ pc \in {"parse", "csv"} =>
          \A k \in 1..Len(metadata_list) :
              all_files[working[metadata_list[k].current_name]].size >= MinFontSize
    /\ \A p \in DOMAIN done : all_files[done[p]].size >= MinFontSize

\* the resolver gives the working file f a row: it is a font by extension or
\* signature, and it is matched by the manifest or fontTools reads it
Resolves(f) ==
    LET file == all_files[CHOOSE k \in 1..Len(copied_files) :
                    /\ copied_files[k].path = f
                    /\ \A j \in (k + 1)..Len(copied_files) : copied_files[j].path # f]
    IN  /\ is_font(f, file)
        /\ truthy(rel_to_xml_get(f)) \/ font_readable(file)

RowFiles(rows) == [k \in 1..Len(rows) |-> rows[k].current_name]
ParseLog == SelectSeq(log, LAMBDA e : e.op \in {"skipped", "processed", "failed"})

\* C6: the ledger holds one row per resolved file, in the order the resolver took
\* the files; a file that is skipped or fails has no row and is handled once, and
\* every file after it is still handled.
C6_LedgerRows ==
    /\ pc = "parse" =>
          /\ RowFiles(metadata_list) = SelectSeq(SubSeq(font_files, 1, i - 1), Resolves)
          /\ [k \in 1..Len(ParseLog) |-> ParseLog[k].file] = SubSeq(font_files, 1, i - 1)
    /\ csv.written =>
          /\ RowFiles(csv.rows) = SelectSeq(font_files, Resolves)
          /\ [k \in 1..Len(ParseLog) |-> ParseLog[k].file] = font_files

\* the ledger is written, and a file that was resolved came after a file whose
\* introspection failed
C6_Witness ==
    /\ csv.written
    /\ \E a, b \in 1..Len(ParseLog) :
          a < b /\ ParseLog[a].op = "failed" /\ ParseLog[b].op = "processed"

\* C7: when no file resolves, the run ends with "No valid fonts found" and exit
\* status 0; the ledger is not written and nothing is renamed or organized.
C7_NoFontsEndsRun ==
    /\ (ParsePassed /\ metadata_list = <<>>) =>
          /\ pc = "exit" /\ result = "no_fonts" /\ exit_code = 0
          /\ ~csv.written
          /\ new_files = <<>> /\ done = EmptyMap /\ done_dirs = {}
          /\ log[Len(log)].op = "no_valid_fonts"
          /\ \A k \in 1..Len(log) :
                log[k].op \notin {"wrote_csv", "renamed", "rename_failed",
                                  "moved", "move_failed"}
    /\ result = "no_fonts" => ParsePassed /\ metadata_list = <<>>

\* the run has ended with "No valid fonts found" after an unparsable manifest
C7_Witness ==
    result = "no_fonts" /\ exit_code = 0 /\ ~manifest.parses

\* C8, as stated: a failure while filing one file never aborts the organizer:
\* the phase ends only after every file handed to it has been attempted.
C8_AsStated ==
    (pc = "exit" /\ result \notin {"no_fonts", "aborted"}) =>
        /\ result = "all_done"
        /\ i > Len(new_files)

\* C9: a failed rename halts the run with exit status 1 unless the user answers
\* y: after the refusal nothing is renamed or organized any more; after y the
\* rename phase goes on with the next file.
C9_RenameFailureHalts ==
    /\ [](result = "aborted" =>
            /\ pc = "exit" /\ exit_code = 1
            /\ done = EmptyMap /\ done_dirs = {}
            /\ log[Len(log)].op = "user_aborted")
    /\ [](\A k \in 1..Len(log) : log[k].op = "user_aborted" => result = "aborted")
    /\ [][ /\ pc # "exit"
           /\ (Len(log') > Len(log) /\ log'[Len(log) + 1].op = "rename_failed") =>
                /\ working' = working /\ done' = done /\ new_files' = new_files
                /\ \/ /\ Len(log') = Len(log) + 2
                      /\ result' = "aborted"
                   \/ /\ Len(log') = Len(log) + 1
                      /\ pc' = "rename" /\ i' = i + 1 /\ result' = "running"
         ]_vars

\* the run was halted by a failed rename while a later file was still to be renamed
C9_Witness ==
    result = "aborted" /\ i < Len(metadata_list)

\* C10, as stated: when the resolver takes up a file, every file resolved before
\* it has already been filed.
C10_AsStated ==
    (pc = "parse" /\ i <= Len(font_files)) =>
        Cardinality(DOMAIN done) = Len(metadata_list)

PhaseOf(op) ==
    CASE op \in {"copied", "renamed_copy"} -> 1
      [] op \in {"skipped", "processed", "failed", "no_valid_fonts"} -> 2
      [] op = "wrote_csv" -> 3
      [] op \in {"renamed", "rename_failed", "user_aborted"} -> 4
      [] op \in {"moved", "move_failed"} -> 5
      [] op = "finished" -> 6

\* C10, amended: processing is phase by phase, not file by file: every file is
\* copied before one is resolved, every file is resolved and the ledger is
\* written before one is renamed, every row is renamed before one file is filed;
\* the phases never overlap.
C10_PhaseByPhase ==
    /\ pc \notin {"start", "copy"} => Len(copied_files) = Len(all_files)
    /\ (pc \in {"csv", "rename", "organize"} \/ csv.written) =>
          [k \in 1..Len(ParseLog) |-> ParseLog[k].file] = font_files
    /\ (pc \in {"rename", "organize"} \/ new_files # <<>>) =>
          csv.written /\ csv.rows = metadata_list
    /\ (pc = "organize" \/ done # EmptyMap) =>
          Len(new_files)
            + Len(SelectSeq(log, LAMBDA e : e.op = "rename_failed"))
            = Len(metadata_list)
    /\ \A a, b \in 1..Len(log) : a < b => PhaseOf(log[a].op) <= PhaseOf(log[b].op)

\* two files have gone through every phase
C10_Witness ==
    result = "all_done" /\ Len(metadata_list) >= 2 /\ Cardinality(DOMAIN done) >= 2

\* the source file whose copy the working directory held under `path` when the
\* resolver ran: the last one copy_and_unhide_all wrote there
SourceOf(path) ==
    CHOOSE k \in 1..Len(copied_files) :
        /\ copied_files[k].path = path
        /\ \A j \in (k + 1)..Len(copied_files) : copied_files[j].path # path

\* the first record of a name table with the given name ID, in table order
FirstRecord(names, nameID) ==
    names[CHOOSE k \in 1..Len(names) :
            /\ names[k].nameID = nameID
            /\ \A j \in 1..(k - 1) : names[j].nameID # nameID]

HasRecord(names, nameID) == \E k \in 1..Len(names) : names[k].nameID = nameID

\* the rows are those of the resolver and the working directory is as it left it
RowsFresh == pc \in {"parse", "csv"}

\* C11, as stated: in every ledger row font_name, weight, style and base_family
\* are non-empty strings, and the base_family of a file resolved by binary
\* introspection is "Unknown" whenever stripping leaves nothing of the family
\* name.
C11_AsStated ==
    \A k \in 1..Len(metadata_list) :
        LET row == metadata_list[k]
        IN  /\ row.font_name # <<>>
            /\ row.weight # <<>>
            /\ row.style # <<>>
            /\ row.base_family # <<>>
            /\ (RowsFresh /\ unmatched(row)) =>
                  LET names == all_files[SourceOf(row.current_name)].font.names
                  IN  get_base_family(names) = <<>> => row.base_family = Unknown

\* C12, as stated: the file_type of every ledger row is ttf or otf.
C12_AsStated ==
    \A k \in 1..Len(metadata_list) :
        metadata_list[k].file_type \in {<<"t","t","f">>, <<"o","t","f">>}

\* C13, as stated: for a file resolved by binary introspection, font_name is the
\* cleaned string of the first record with nameID 1 and weight that of the first
\* record with nameID 2, in table order, whatever the later records are (an empty
\* font_name being labelled "Unknown"); style is "VARIABLE" whenever the
\* container has an fvar table.
C13_AsStated ==
    RowsFresh =>
        \A k \in 1..Len(metadata_list) :
            LET row   == metadata_list[k]
                font  == all_files[SourceOf(row.current_name)].font
                names == font.names
            IN  unmatched(row) =>
                  /\ HasRecord(names, 1) =>
                        row.font_name =
                            or(clean_name(FirstRecord(names, 1).string), Unknown)
                  /\ HasRecord(names, 2) =>
                        row.weight = clean_name(FirstRecord(names, 2).string)
                  /\ "fvar" \in font.tables => row.style = VARIABLE_

\* C14, as stated: the destination paths recorded in copied_files are pairwise
\* distinct, and the working directory holds one file per source file copied.
C14_AsStated ==
    pc \in {"copy", "parse"} =>
        /\ Distinct([k \in 1..Len(copied_files) |-> copied_files[k].path])
        /\ Cardinality(DOMAIN working) = Len(copied_files)

\* no rename, move or mkdir has failed so far
NoFailure ==
    /\ result \notin {"aborted", "crashed"}
    /\ \A k \in 1..Len(log) :
          log[k].op \notin {"rename_failed", "user_aborted", "move_failed"}

\* the files of the output tree that come from the source file of row k
FiledFor(k) ==
    { p \in DOMAIN done : done[p] = SourceOf(metadata_list[k].current_name) }

\* C15: in a run where no filesystem operation fails, the ledger rows and the
\* files of the output tree are in one-to-one correspondence: every row has
\* exactly one file, under the folder named by its sanitized base_family; every
\* file of the output tree has a row; and from the end of the rename phase on
\* the working directory holds only the files still to be handed to the
\* organizer.
C15_LedgerMatchesOutput ==
    /\ (result = "all_done" /\ NoFailure) =>
          /\ csv.written /\ csv.rows = metadata_list
          /\ \A k \in 1..Len(metadata_list) :
                /\ Cardinality(FiledFor(k)) = 1
                /\ \A p \in FiledFor(k) :
                      p.dir = sanitize_filename(metadata_list[k].base_family)
                /\ \A j \in 1..Len(metadata_list) :
                      j # k => FiledFor(j) # FiledFor(k)
          /\ \A p \in DOMAIN done : \E k \in 1..Len(metadata_list) : p \in FiledFor(k)
          /\ Cardinality(DOMAIN done) = Len(metadata_list)
          /\ done_dirs = { p.dir : p \in DOMAIN done }
    /\ (pc = "organize" /\ NoFailure) =>
          /\ Len(new_files) = Len(metadata_list)
          /\ DOMAIN working = { new_files[k].path : k \in i..Len(new_files) }
          /\ Cardinality(DOMAIN working) = Len(new_files) - i + 1
    /\ (result = "all_done" /\ NoFailure) => working = EmptyMap

\* a run without failures has ended: a file that is no font was removed from
\* the working directory and two files that came under the same name from two
\* directories are filed side by side
C15_Witness ==
    /\ result = "all_done" /\ NoFailure
    /\ skipped_nonfonts >= 1
    /\ Len(metadata_list) >= 2
    /\ \E j, k \in 1..Len(new_files) :
          /\ j # k
          /\ new_files[j].path.name = new_files[k].path.name
          /\ family_folder(new_files[j]) = family_folder(new_files[k])

====
